---- MODULE Spec2Model ----
(***************************************************************************)
(* Differential selection: dms_tools2/diffsel.py.                          *)
(*                                                                         *)
(* computeMutDiffSel is modelled stage by stage (input checks, melt, error *)
(* correction, codon-to-amino-acid translation, pseudocounts and           *)
(* enrichment); mutToSiteDiffSel is modelled as one step.                  *)
(*                                                                         *)
(* Floating point columns are modelled as exact fractions <<num, den>>     *)
(* extended with the IEEE-754 special values the pandas/numpy arithmetic   *)
(* produces: <<1, 0>> is inf, <<-1, 0>> is -inf and <<0, 0>> is NaN.       *)
(* Rounding is not modelled.  log2 is kept symbolic: Log2 wraps its        *)
(* argument, so that log2(x) = -log2(y) is decided as x = 1/y and          *)
(* |log2(x)| <= |log2(y)| as max(x, 1/x) <= max(y, 1/y).                   *)
(***************************************************************************)
EXTENDS Integers, Sequences, FiniteSets, TLC

----------------------------------------------------------------------------
(* Bounds of the model *)

\* largest count in a cell of a count table
MaxCount == 1
\* largest count in a cell of the tables of the pseudocount study
MaxDepth == 3
\* pseudocounts are drawn from 0..MaxPseudo (0 violates the precondition)
MaxPseudo == 2
\* mincount is drawn from -1..MaxMin (-1 violates the documented range)
MaxMin == 1
\* table values of mutToSiteDiffSel are drawn from -MaxVal..MaxVal and NaN
MaxVal == 1

----------------------------------------------------------------------------
(* float arithmetic: fractions with inf and NaN *)

NaN == <<0, 0>>
Inf == <<1, 0>>
Zero == <<0, 1>>
One == <<1, 1>>

Float(i) == <<i, 1>>

IsNaN(x) == x[1] = 0 /\ x[2] = 0
IsInf(x) == x[1] # 0 /\ x[2] = 0
IsFinite(x) == x[2] # 0

AbsInt(i) == IF i < 0 THEN -i ELSE i
Sgn(i) == IF i < 0 THEN -1 ELSE IF i > 0 THEN 1 ELSE 0

RECURSIVE GCD(_, _)
GCD(a, b) == IF b = 0 THEN a ELSE GCD(b, a % b)

\* the fraction n/d (d # 0) in lowest terms with a positive denominator
Frac(n, d) ==
    LET g == GCD(AbsInt(n), AbsInt(d))
        s == IF d < 0 THEN -1 ELSE 1
    IN  <<(s * n) \div g, (s * d) \div g>>

FNeg(x) == <<-x[1], x[2]>>

FAdd(x, y) ==
    IF IsNaN(x) \/ IsNaN(y) THEN NaN
    ELSE IF IsInf(x) /\ IsInf(y) THEN (IF x[1] = y[1] THEN x ELSE NaN)
    ELSE IF IsInf(x) THEN x
    ELSE IF IsInf(y) THEN y
    ELSE Frac(x[1] * y[2] + y[1] * x[2], x[2] * y[2])

FSub(x, y) == FAdd(x, FNeg(y))

FMul(x, y) ==
    IF IsNaN(x) \/ IsNaN(y) THEN NaN
    ELSE IF IsInf(x) \/ IsInf(y)
         THEN (IF x[1] = 0 \/ y[1] = 0 THEN NaN ELSE <<Sgn(x[1]) * Sgn(y[1]), 0>>)
    ELSE Frac(x[1] * y[1], x[2] * y[2])

\* float division as pandas does it: x/0 is +-inf, 0/0 and inf/inf are NaN
FDiv(x, y) ==
    IF IsNaN(x) \/ IsNaN(y) THEN NaN
    ELSE IF IsInf(x) THEN (IF IsInf(y) THEN NaN
                           ELSE <<x[1] * (IF y[1] < 0 THEN -1 ELSE 1), 0>>)
    ELSE IF IsInf(y) THEN Zero
    ELSE IF y[1] = 0 THEN (IF x[1] = 0 THEN NaN ELSE <<Sgn(x[1]), 0>>)
    ELSE Frac(x[1] * y[2], x[2] * y[1])

\* x < y on floats; False when either is NaN
FLt(x, y) ==
    IF IsNaN(x) \/ IsNaN(y) THEN FALSE
    ELSE IF IsInf(x) THEN x[1] < 0 /\ x # y
    ELSE IF IsInf(y) THEN y[1] > 0
    ELSE x[1] * y[2] < y[1] * x[2]

\* x >= y on floats; False when either is NaN
FGe(x, y) == ~IsNaN(x) /\ ~IsNaN(y) /\ ~FLt(x, y)

FLe(x, y) == FGe(y, x)

\* numpy.maximum: NaN when either argument is NaN
Maximum(x, y) ==
    IF IsNaN(x) \/ IsNaN(y) THEN NaN ELSE IF FLt(x, y) THEN y ELSE x

FAbs(x) == <<AbsInt(x[1]), x[2]>>

\* numpy.log2, symbolic on the finite positive floats
Log2(x) ==
    IF IsNaN(x) \/ FLt(x, Zero) THEN [kind |-> "nan", of |-> NaN]
    ELSE IF x = Zero THEN [kind |-> "-inf", of |-> Zero]
    ELSE IF IsInf(x) THEN [kind |-> "inf", of |-> Inf]
    ELSE [kind |-> "log2", of |-> x]

----------------------------------------------------------------------------
(* alphabets *)

\* dms_tools2.CODONS and dms_tools2.CODON_TO_AA, restricted to three codons
\* of the standard genetic code: two synonymous codons and one other
CODONS == {"AAA", "AAG", "GAT"}
CODON_TO_AA == [c \in CODONS |-> IF c = "GAT" THEN "D" ELSE "K"]

\* an alphabet that is not the codon alphabet
AAS == {"D", "K"}

\* err=None
None == <<>>

----------------------------------------------------------------------------
(* state *)

VARIABLES
    sel, mock, err,     \* count tables: sequences of rows, each row with its index label
    countcharacters,    \* the alphabet (a set: the code only uses it as one)
    pseudocount,        \* integer; the float Float(pseudocount) in arithmetic
    translate_to_aa,
    mincount,
    pc,                 \* next statement of the call, "returned" or "raised"
    m,                  \* the melted dataframe: a set of rows
    ret,                \* the dataframe computeMutDiffSel returns
    raised,             \* the exception that ended the call, "" when none
    mutdiffsel,         \* argument of mutToSiteDiffSel: rows site, mutation, mutdiffsel
    sitediffsel         \* the dataframe mutToSiteDiffSel returns

vars == <<sel, mock, err, countcharacters, pseudocount, translate_to_aa,
          mincount, pc, m, ret, raised, mutdiffsel, sitediffsel>>

inputs == <<sel, mock, err, countcharacters, pseudocount, translate_to_aa,
            mincount, mutdiffsel>>

----------------------------------------------------------------------------
(* dataframe helpers *)

\* one row of a count table; idx is its index label
Row(i, s, w, cnts) == [idx |-> i, site |-> s, wildtype |-> w, counts |-> cnts]

Range(f) == {f[i] : i \in DOMAIN f}

\* DataFrame.columns of a count table
Columns(df) == {"site", "wildtype"} \cup UNION {DOMAIN r.counts : r \in Range(df)}

\* DataFrame.sort_values('site'): the rows in site order, each keeping its
\* index label (sites are unique within a table)
SortValues(df) ==
    LET n == Len(df)
        perm == CHOOSE f \in [1..n -> 1..n] :
                    /\ \A i, j \in 1..n : i # j => f[i] # f[j]
                    /\ \A i, j \in 1..n : i < j => df[f[i]].site <= df[f[j]].site
    IN  [i \in 1..n |-> df[perm[i]]]

\* a == b on two columns: pandas refuses to compare Series whose indexes
\* differ, and compares element by element otherwise
SeriesComparable(a, b) ==
    /\ Len(a) = Len(b)
    /\ \A i \in 1..Len(a) : a[i].idx = b[i].idx

AllEqual(a, b, col) == \A i \in 1..Len(a) : a[i][col] = b[i][col]

\* groupby(...).sum() of one column over a set of rows: NaN cells are skipped
\* and an empty or all-NaN group sums to 0
RECURSIVE SumSkipNA(_, _)
SumSkipNA(rows, col) ==
    IF rows = {} THEN Zero
    ELSE LET r == CHOOSE x \in rows : TRUE
             rest == SumSkipNA(rows \ {r}, col)
         IN  IF IsNaN(r[col]) THEN rest ELSE FAdd(r[col], rest)

\* df.melt(id_vars=['site', 'wildtype'], var_name='mutation', value_name='n')
MeltLong(df) ==
    UNION {{[site |-> r.site, wildtype |-> r.wildtype, mutation |-> c,
             n |-> Float(r.counts[c])] : c \in DOMAIN r.counts}
           : r \in Range(df)}

\* the melted frame of one sample with N = groupby('site').transform('sum')['n']
MeltFrame(df) ==
    LET long == MeltLong(df)
    IN  {[site |-> x.site, wildtype |-> x.wildtype, mutation |-> x.mutation,
          n |-> x.n, N |-> SumSkipNA({y \in long : y.site = x.site}, "n")]
         : x \in long}

\* the row of a melted frame with the key of x
SameKey(frame, x) ==
    CHOOSE y \in frame : y.site = x.site /\ y.mutation = x.mutation

----------------------------------------------------------------------------
(* computeMutDiffSel: the checks of its arguments *)

expectedcols == {"site", "wildtype"} \cup countcharacters

\* the exception lines 43-58 raise, "" when they raise none
CheckError ==
    LET s == SortValues(sel)
        k == SortValues(mock)
        e == SortValues(err)
    IN  IF ~(pseudocount > 0) THEN "AssertionError"
        ELSE IF Columns(sel) # expectedcols
             THEN "AssertionError: Invalid columns for sel"
        ELSE IF Columns(mock) # expectedcols
             THEN "AssertionError: Invalid columns for sel"
        ELSE IF ~SeriesComparable(s, k)
             THEN "ValueError: Can only compare identically-labeled Series objects"
        ELSE IF ~AllEqual(s, k, "site") THEN "AssertionError: Inconsistent sites"
        ELSE IF ~AllEqual(s, k, "wildtype")
             THEN "AssertionError: Inconsistent wildtype"
        ELSE IF err = None THEN ""
        ELSE IF Columns(err) # expectedcols
             THEN "AssertionError: Invalid columns for err"
        ELSE IF ~SeriesComparable(e, s)
             THEN "ValueError: Can only compare identically-labeled Series objects"
        ELSE IF ~AllEqual(e, s, "site") \/ ~AllEqual(e, s, "wildtype")
             THEN "AssertionError: Inconsistent sites"
        ELSE ""

Raise(exc) ==
    /\ pc' = "raised"
    /\ raised' = exc
    /\ UNCHANGED <<sel, mock, err, m, ret>>

CheckInputs ==
    /\ pc = "check"
    /\ IF CheckError # ""
       THEN Raise(CheckError)
       ELSE /\ sel' = SortValues(sel)
            /\ mock' = SortValues(mock)
            /\ err' = SortValues(err)
            /\ pc' = "melt"
            /\ UNCHANGED <<m, ret, raised>>
    /\ UNCHANGED <<countcharacters, pseudocount, translate_to_aa, mincount,
                   mutdiffsel, sitediffsel>>

----------------------------------------------------------------------------
(* computeMutDiffSel: the melted dataframe *)

\* lines 61-76: one row for each site and character, with the count n and
\* the site total N of each sample
Melted(s, k, e) ==
    LET ms == MeltFrame(s)
        mk == MeltFrame(k)
        me == MeltFrame(e)
    IN  IF e = None
        THEN {[site |-> x.site, wildtype |-> x.wildtype, mutation |-> x.mutation,
               nsel |-> x.n, Nsel |-> x.N,
               nmock |-> SameKey(mk, x).n, Nmock |-> SameKey(mk, x).N]
              : x \in ms}
        ELSE {[site |-> x.site, wildtype |-> x.wildtype, mutation |-> x.mutation,
               nsel |-> x.n, Nsel |-> x.N,
               nmock |-> SameKey(mk, x).n, Nmock |-> SameKey(mk, x).N,
               nerr |-> SameKey(me, x).n, Nerr |-> SameKey(me, x).N]
              : x \in ms}

\* where the call goes on after the melt and after the error correction
AfterMelt == IF err # None THEN "errcorr"
             ELSE IF translate_to_aa THEN "translate" ELSE "diffsel"

AfterErrCorr == IF translate_to_aa THEN "translate" ELSE "diffsel"

Melt ==
    /\ pc = "melt"
    /\ m' = Melted(sel, mock, err)
    /\ pc' = AfterMelt
    /\ UNCHANGED <<inputs, ret, raised, sitediffsel>>

----------------------------------------------------------------------------
(* computeMutDiffSel: error correction *)

wtmask(r) == r.mutation = r.wildtype

\* a mutation of Epsilon: the share of the err counts of a site that are not
\* the row's
MutEpsilon(r) == FDiv(FSub(r.Nerr, r.nerr), r.Nerr)

\* line 80: epsilon of a row is the err count of that row over the err total
\* of its site
Epsilon(r) == FDiv(r.nerr, r.Nerr)

\* lines 87-91: the corrected count of a row from its raw n and N
CorrectedCount(r, n, N) ==
    IF wtmask(r) THEN FDiv(n, Epsilon(r))
    ELSE Maximum(Zero, FMul(N, FSub(FDiv(n, N), Epsilon(r))))

\* lines 80-92: the frame with epsilon, the corrected counts of sel and mock
\* and the site totals recomputed from the corrected counts.  (The index
\* column reset_index adds on line 93 is not modelled: nothing reads it.)
Corrected(frame) ==
    LET c == {[site |-> r.site, wildtype |-> r.wildtype, mutation |-> r.mutation,
               nsel |-> CorrectedCount(r, r.nsel, r.Nsel),
               nmock |-> CorrectedCount(r, r.nmock, r.Nmock),
               nerr |-> r.nerr, Nerr |-> r.Nerr, epsilon |-> Epsilon(r)]
              : r \in frame}
    IN  {[site |-> r.site, wildtype |-> r.wildtype, mutation |-> r.mutation,
          nsel |-> r.nsel,
          Nsel |-> SumSkipNA({y \in c : y.site = r.site}, "nsel"),
          nmock |-> r.nmock,
          Nmock |-> SumSkipNA({y \in c : y.site = r.site}, "nmock"),
          nerr |-> r.nerr, Nerr |-> r.Nerr, epsilon |-> r.epsilon]
         : r \in c}

\* Line 82, assert all(m[wtmask] > 0), depends on the pandas in use.  A
\* pandas that compares the string columns of m with 0 strictly raises
\* TypeError on every call with err.  A pandas that passes string columns
\* through returns a DataFrame, and all() of a DataFrame runs over its column
\* labels, which are non-empty strings: the assertion passes whatever the
\* counts are.
ErrorCorrection ==
    /\ pc = "errcorr"
    /\ \E strict_comparison \in BOOLEAN :
          IF strict_comparison
          THEN /\ Raise("TypeError: '>' not supported between instances of 'str' and 'int'")
               /\ UNCHANGED <<countcharacters, pseudocount, translate_to_aa,
                              mincount, mutdiffsel, sitediffsel>>
          ELSE /\ m' = Corrected(m)
               /\ pc' = AfterErrCorr
               /\ UNCHANGED <<inputs, ret, raised, sitediffsel>>

----------------------------------------------------------------------------
(* computeMutDiffSel: codon to amino-acid counts *)

\* DataFrame.replace with CODON_TO_AA: other values are left as they are
ToAA(c) == IF c \in DOMAIN CODON_TO_AA THEN CODON_TO_AA[c] ELSE c

GroupKey(r) == <<r.site, ToAA(r.wildtype), ToAA(r.mutation), r.Nsel, r.Nmock>>

\* a mutation of Translated: the count of one codon of a group overwrites the
\* counts of the others
MutTranslated(frame) ==
    LET kept == {r \in frame : ~IsNaN(r.Nsel) /\ ~IsNaN(r.Nmock)}
        First(r) == CHOOSE y \in kept : GroupKey(y) = GroupKey(r)
    IN  {[site |-> r.site, wildtype |-> ToAA(r.wildtype),
          mutation |-> ToAA(r.mutation), Nsel |-> r.Nsel, Nmock |-> r.Nmock,
          nsel |-> First(r).nsel, nmock |-> First(r).nmock] : r \in kept}

\* lines 99-103: groupby drops the rows with a NaN in a key column and sums
\* the other columns within each group
Translated(frame) ==
    LET kept == {r \in frame : ~IsNaN(r.Nsel) /\ ~IsNaN(r.Nmock)}
        Group(r) == {y \in kept : GroupKey(y) = GroupKey(r)}
    IN  {[site |-> r.site, wildtype |-> ToAA(r.wildtype),
          mutation |-> ToAA(r.mutation), Nsel |-> r.Nsel, Nmock |-> r.Nmock,
          nsel |-> SumSkipNA(Group(r), "nsel"),
          nmock |-> SumSkipNA(Group(r), "nmock")] : r \in kept}
\* (the sums of the nerr, Nerr and epsilon columns are not modelled: nothing
\* reads them)

Translate ==
    /\ pc = "translate"
    /\ IF countcharacters # CODONS
       THEN /\ Raise("AssertionError: translate_to_aa specified, but not using codons")
            /\ UNCHANGED <<countcharacters, pseudocount, translate_to_aa,
                           mincount, mutdiffsel, sitediffsel>>
       ELSE /\ m' = Translated(m)
            /\ pc' = "diffsel"
            /\ UNCHANGED <<inputs, ret, raised, sitediffsel>>

----------------------------------------------------------------------------
(* computeMutDiffSel: pseudocounts, enrichment and mutdiffsel *)

\* a mutation of nselP: the scaled depth ratio is divided by the pseudocount
MutNselP(r, p) == FAdd(r.nsel, FDiv(Maximum(One, FDiv(r.Nsel, r.Nmock)), Float(p)))

\* a mutation of nmockP: the pseudocount of mock is scaled as that of sel
MutNmockP(r, p) == FAdd(r.nmock, FMul(Float(p), Maximum(One, FDiv(r.Nsel, r.Nmock))))

\* lines 106-107
nselP(r, p) == FAdd(r.nsel, FMul(Float(p), Maximum(One, FDiv(r.Nsel, r.Nmock))))

\* lines 108-109
nmockP(r, p) == FAdd(r.nmock, FMul(Float(p), Maximum(One, FDiv(r.Nmock, r.Nsel))))

\* lines 119-120: the rows that keep their enrichment
Unmasked(r, minc) ==
    /\ r.mutation # r.wildtype
    /\ (FGe(r.nsel, Float(minc)) \/ FGe(r.nmock, Float(minc)))

\* lines 117-121, on a row merged with the wildtype row of its site
Enrichment(x, minc) ==
    IF Unmasked(x, minc)
    THEN FDiv(FDiv(x.nselP, x.nselPwt), FDiv(x.nmockP, x.nmockPwt))
    ELSE NaN

\* lines 106-122: the pseudocounts, the merge of each row with the wildtype
\* rows of its site, the enrichment and its log2
DiffSel(frame, p, minc) ==
    LET withP == {[site |-> r.site, wildtype |-> r.wildtype,
                   mutation |-> r.mutation,
                   nsel |-> r.nsel, Nsel |-> r.Nsel,
                   nmock |-> r.nmock, Nmock |-> r.Nmock,
                   nselP |-> nselP(r, p), nmockP |-> nmockP(r, p)] : r \in frame}
        wt == {w \in withP : w.mutation = w.wildtype}
        merged == UNION {{[site |-> r.site, wildtype |-> r.wildtype,
                           mutation |-> r.mutation,
                           nsel |-> r.nsel, Nsel |-> r.Nsel,
                           nmock |-> r.nmock, Nmock |-> r.Nmock,
                           nselP |-> r.nselP, nmockP |-> r.nmockP,
                           nselPwt |-> w.nselP, nmockPwt |-> w.nmockP]
                          : w \in {v \in wt : v.site = r.site}} : r \in withP}
        WithEnrichment(x) ==
            LET e == Enrichment(x, minc)
            IN  [site |-> x.site, wildtype |-> x.wildtype, mutation |-> x.mutation,
                 nsel |-> x.nsel, Nsel |-> x.Nsel,
                 nmock |-> x.nmock, Nmock |-> x.Nmock,
                 nselP |-> x.nselP, nmockP |-> x.nmockP,
                 nselPwt |-> x.nselPwt, nmockPwt |-> x.nmockPwt,
                 enrichment |-> e, mutdiffsel |-> Log2(e)]
    IN  {WithEnrichment(x) : x \in merged}

\* line 124
Returned(frame) ==
    {[site |-> r.site, wildtype |-> r.wildtype, mutation |-> r.mutation,
      mutdiffsel |-> r.mutdiffsel] : r \in frame}

ComputeDiffSel ==
    /\ pc = "diffsel"
    /\ m' = DiffSel(m, pseudocount, mincount)
    /\ ret' = Returned(m')
    /\ pc' = "returned"
    /\ UNCHANGED <<inputs, raised, sitediffsel>>

----------------------------------------------------------------------------
(* mutToSiteDiffSel *)

\* pivot(index='site', columns='mutation', values='mutdiffsel').fillna(0):
\* for each site a row of one cell for each mutation
Pivot(frame) ==
    LET sites == {r.site : r \in frame}
        cols == {r.mutation : r \in frame}
        Cell(s, c) ==
            IF \E r \in frame : r.site = s /\ r.mutation = c
            THEN (CHOOSE r \in frame : r.site = s /\ r.mutation = c).mutdiffsel
            ELSE NaN
    IN  [s \in sites |-> [c \in cols |-> Cell(s, c)]]

FillNA(wide) ==
    [s \in DOMAIN wide |->
        [c \in DOMAIN wide[s] |-> IF IsNaN(wide[s][c]) THEN Zero ELSE wide[s][c]]]

\* sum(axis=1) over the cells cols of a row x
RECURSIVE RowSum(_, _)
RowSum(x, cols) ==
    IF cols = {} THEN Zero
    ELSE LET c == CHOOSE d \in cols : TRUE
         IN  FAdd(x[c], RowSum(x, cols \ {c}))

\* x.abs().sum(axis=1)
RowAbsSum(x) == RowSum([c \in DOMAIN x |-> FAbs(x[c])], DOMAIN x)

\* x[x >= 0].sum(axis=1) and x[x <= 0].sum(axis=1): the cells that fail the
\* test become NaN, which sum skips
RowPositiveSum(x) == RowSum(x, {c \in DOMAIN x : FGe(x[c], Zero)})
RowNegativeSum(x) == RowSum(x, {c \in DOMAIN x : FLe(x[c], Zero)})

\* x.max(axis=1) and x.min(axis=1)
RowMax(x) == CHOOSE v \in Range(x) : \A u \in Range(x) : FGe(v, u)
RowMin(x) == CHOOSE v \in Range(x) : \A u \in Range(x) : FLe(v, u)

\* assign(...) of a pandas that evaluates every keyword on the frame it was
\* called on (pandas before 0.23)
AssignIndependent(x) ==
    [abs_diffsel |-> RowAbsSum(x),
     positive_diffsel |-> RowPositiveSum(x),
     negative_diffsel |-> RowNegativeSum(x),
     max_diffsel |-> RowMax(x),
     min_diffsel |-> RowMin(x)]

\* assign(...) of a pandas that evaluates the keywords in order, each on the
\* frame with the columns assigned before it (pandas 0.23 and later)
AssignInOrder(x) ==
    LET x1 == x @@ ("abs_diffsel" :> RowAbsSum(x))
        x2 == x1 @@ ("positive_diffsel" :> RowPositiveSum(x1))
        x3 == x2 @@ ("negative_diffsel" :> RowNegativeSum(x2))
        x4 == x3 @@ ("max_diffsel" :> RowMax(x3))
        x5 == x4 @@ ("min_diffsel" :> RowMin(x4))
    IN  [abs_diffsel |-> x5["abs_diffsel"],
         positive_diffsel |-> x5["positive_diffsel"],
         negative_diffsel |-> x5["negative_diffsel"],
         max_diffsel |-> x5["max_diffsel"],
         min_diffsel |-> x5["min_diffsel"]]

\* lines 173-186; the result as a function of the site
SiteDiffSel(frame, in_order) ==
    LET wide == FillNA(Pivot(frame))
    IN  [s \in DOMAIN wide |->
            IF in_order THEN AssignInOrder(wide[s]) ELSE AssignIndependent(wide[s])]

MutToSiteDiffSel ==
    /\ pc = "site"
    /\ \E in_order \in BOOLEAN : sitediffsel' = SiteDiffSel(mutdiffsel, in_order)
    /\ pc' = "sitereturned"
    /\ UNCHANGED <<inputs, m, ret, raised>>

----------------------------------------------------------------------------
(* initial states: the arguments of one call *)

\* no call of mutToSiteDiffSel
NoSiteCall == mutdiffsel = {} /\ sitediffsel = <<>>

\* no call of computeMutDiffSel
NoMutCall ==
    /\ sel = <<>> /\ mock = <<>> /\ err = None
    /\ countcharacters = {} /\ pseudocount = 1 /\ mincount = 0
    /\ translate_to_aa = FALSE
    /\ m = {} /\ ret = {} /\ raised = ""

\* the one-row tables of site 1 with wildtype w and counts in 0..maxc
OneSite(chars, w, maxc) == {<<Row(0, 1, w, c)>> : c \in [chars -> 0..maxc]}

\* a call of computeMutDiffSel on tables of one site
InitCounts(alphabets, maxc, witherr, pseudocounts, mincounts) ==
    /\ countcharacters \in alphabets
    /\ \E w \in countcharacters :
          /\ sel \in OneSite(countcharacters, w, maxc)
          /\ mock \in OneSite(countcharacters, w, maxc)
          /\ err \in (IF witherr THEN OneSite(countcharacters, w, maxc) ELSE {})
                         \cup {None}
    /\ pseudocount \in pseudocounts
    /\ mincount \in mincounts
    /\ translate_to_aa \in BOOLEAN
    /\ pc = "check" /\ m = {} /\ ret = {} /\ raised = ""
    /\ NoSiteCall

\* tables of two rows: the sites in the row order of the table, and the
\* wildtype of the second site
SiteOrders == {<<1, 2>>, <<2, 1>>, <<1, 3>>, <<1>>}
SecondWildtype == {"GAT", "AAG"}

WildtypeOf(s, w2) == IF s = 1 THEN "AAA" ELSE w2

\* the table with the sites in the given row order; the count of a wildtype
\* is base + 1 and the count of another character base + (site mod 2)
TwoSite(order, w2, base) ==
    [i \in 1..Len(order) |->
        Row(i - 1, order[i], WildtypeOf(order[i], w2),
            [c \in CODONS |-> IF c = WildtypeOf(order[i], w2)
                              THEN base + 1 ELSE base + (order[i] % 2)])]

\* a call of computeMutDiffSel on codon tables of two sites in any row order,
\* with the codon alphabet or another one
InitAlign ==
    /\ countcharacters \in {CODONS, AAS}
    /\ sel \in {TwoSite(o, "GAT", 0) : o \in {<<1, 2>>, <<2, 1>>}}
    /\ mock \in {TwoSite(o, w, 1) : o \in SiteOrders, w \in SecondWildtype}
    /\ err \in {TwoSite(o, w, 1) : o \in SiteOrders, w \in SecondWildtype}
                  \cup {None}
    /\ pseudocount \in 0..MaxPseudo
    /\ mincount \in -1..MaxMin
    /\ translate_to_aa \in BOOLEAN
    /\ pc = "check" /\ m = {} /\ ret = {} /\ raised = ""
    /\ NoSiteCall

\* the table of the doctest of mutToSiteDiffSel (lines 143-154)
DocTable ==
    {[site |-> 1, wildtype |-> "A", mutation |-> "A", mutdiffsel |-> NaN],
     [site |-> 1, wildtype |-> "A", mutation |-> "C", mutdiffsel |-> <<-1, 5>>],
     [site |-> 1, wildtype |-> "A", mutation |-> "G", mutdiffsel |-> <<16, 5>>],
     [site |-> 1, wildtype |-> "A", mutation |-> "T", mutdiffsel |-> <<-1, 5>>],
     [site |-> 2, wildtype |-> "C", mutation |-> "A", mutdiffsel |-> <<41, 10>>],
     [site |-> 2, wildtype |-> "C", mutation |-> "C", mutdiffsel |-> NaN],
     [site |-> 2, wildtype |-> "C", mutation |-> "G", mutdiffsel |-> <<1, 10>>],
     [site |-> 2, wildtype |-> "C", mutation |-> "T", mutdiffsel |-> Zero]}

\* the values of a cell of a mutation-level table
CellValues == {NaN} \cup {Float(v) : v \in -MaxVal..MaxVal}

\* the mutation-level tables of sites 1 and 2 with wildtype A: NaN at the
\* wildtype, as computeMutDiffSel returns it, and any value elsewhere
SiteTables ==
    {{[site |-> s, wildtype |-> "A", mutation |-> c,
       mutdiffsel |-> IF c = "A" THEN NaN ELSE f[s][c]]
      : s \in {1, 2}, c \in {"A", "C", "G", "T"}}
     : f \in [{1, 2} -> [{"C", "G", "T"} -> CellValues]]}

\* a call of mutToSiteDiffSel
InitSite ==
    /\ mutdiffsel \in {DocTable} \cup SiteTables
    /\ sitediffsel = <<>>
    /\ pc = "site"
    /\ NoMutCall

\* the fixed tables of the studies below: an error control with most of its
\* counts on the wildtype, and a mock sample with every count 1
ErrControl(chars, w) == <<Row(0, 1, w, [c \in chars |-> IF c = w THEN 2 ELSE 1])>>
FlatMock(chars, w) == <<Row(0, 1, w, [c \in chars |-> 1])>>

\* calls in which sel and mock take every count, with and without a fixed
\* error control
InitSwap ==
    /\ countcharacters = CODONS
    /\ \E w \in countcharacters :
          /\ sel \in OneSite(countcharacters, w, MaxCount)
          /\ mock \in OneSite(countcharacters, w, MaxCount)
          /\ err \in {None, ErrControl(countcharacters, w)}
    /\ pseudocount \in {1, MaxPseudo}
    /\ mincount \in {0, MaxMin}
    /\ translate_to_aa \in BOOLEAN
    /\ pc = "check" /\ m = {} /\ ret = {} /\ raised = ""
    /\ NoSiteCall

\* calls in which sel and err take every count, against a fixed mock sample
InitErr ==
    /\ countcharacters = CODONS
    /\ \E w \in countcharacters :
          /\ sel \in OneSite(countcharacters, w, MaxCount)
          /\ mock = FlatMock(countcharacters, w)
          /\ err \in OneSite(countcharacters, w, MaxCount)
    /\ pseudocount = 1
    /\ mincount = 0
    /\ translate_to_aa \in BOOLEAN
    /\ pc = "check" /\ m = {} /\ ret = {} /\ raised = ""
    /\ NoSiteCall

\* calls without err and without translation in which sel and mock take
\* every count up to MaxDepth; the characters are interchangeable here, so
\* the wildtype is fixed
InitPseudo ==
    /\ countcharacters = CODONS
    /\ sel \in OneSite(countcharacters, "AAA", MaxDepth)
    /\ mock \in OneSite(countcharacters, "AAA", MaxDepth)
    /\ err = None
    /\ pseudocount \in 1..MaxPseudo
    /\ mincount = 0
    /\ translate_to_aa = FALSE
    /\ pc = "check" /\ m = {} /\ ret = {} /\ raised = ""
    /\ NoSiteCall

Init ==
    \/ InitCounts({CODONS, AAS}, MaxCount, TRUE, {1}, 0..MaxMin)
    \/ InitAlign
    \/ InitSite

Next ==
    \/ CheckInputs
    \/ Melt
    \/ ErrorCorrection
    \/ Translate
    \/ ComputeDiffSel
    \/ MutToSiteDiffSel

\* every call of either function
Spec == Init /\ [][Next]_vars

NextMut ==
    \/ CheckInputs
    \/ Melt
    \/ ErrorCorrection
    \/ Translate
    \/ ComputeDiffSel

\* calls of computeMutDiffSel on aligned tables of one site
InitMut == InitSwap \/ InitErr

SpecCounts == InitMut /\ [][NextMut]_vars

NextPseudo ==
    \/ CheckInputs
    \/ Melt
    \/ ComputeDiffSel

\* calls of computeMutDiffSel that differ in the pseudocount
SpecPseudo == InitPseudo /\ [][NextPseudo]_vars

----------------------------------------------------------------------------
(* the call as a function of its arguments *)

\* the frame before the pseudocounts are added (lines 61-103)
CountFrame(s, k, e, tr) ==
    LET melted == Melted(s, k, e)
        corrected == IF e # None THEN Corrected(melted) ELSE melted
    IN  IF tr THEN Translated(corrected) ELSE corrected

\* the frame of lines 61-122
FinalFrame(s, k, e, p, tr, minc) == DiffSel(CountFrame(s, k, e, tr), p, minc)

\* the row of a frame at a site and mutation
At(frame, s, c) == CHOOSE r \in frame : r.site = s /\ r.mutation = c

Keys(frame) == {<<r.site, r.mutation>> : r \in frame}


\* the counts of the arguments, read from the tables as they were passed
RawRow(df, s) == CHOOSE r \in Range(df) : r.site = s

RECURSIVE SumCounts(_, _)
SumCounts(cnts, chars) ==
    IF chars = {} THEN 0
    ELSE LET c == CHOOSE d \in chars : TRUE
         IN  cnts[c] + SumCounts(cnts, chars \ {c})

\* the characters counted under a mutation of the returned table
CountedAs(a) ==
    IF translate_to_aa THEN {c \in countcharacters : ToAA(c) = a} ELSE {a}

RawCount(df, s, a) == SumCounts(RawRow(df, s).counts, CountedAs(a))
RawTotal(df, s) == SumCounts(RawRow(df, s).counts, DOMAIN RawRow(df, s).counts)

\* the frame m carries the epsilon column: the error correction has just run
HasEpsilon == m # {} /\ \A r \in m : "epsilon" \in DOMAIN r

\* the err table has a positive count at the wildtype of every site
ErrWildtypePositive == \A r \in Range(err) : r.counts[r.wildtype] > 0

----------------------------------------------------------------------------
(* C1 *)

\* C1: the returned mutdiffsel is NaN exactly where mutation == wildtype or
\* both the raw sel count and the raw mock count of the mutation are below
\* mincount, and is a finite real everywhere else
C1_NaNExactlyWhereMasked ==
    (pc = "returned" /\ mincount >= 0) =>
        \A r \in ret :
            LET masked == \/ r.mutation = r.wildtype
                          \/ /\ RawCount(sel, r.site, r.mutation) < mincount
                             /\ RawCount(mock, r.site, r.mutation) < mincount
            IN  r.mutdiffsel.kind = (IF masked THEN "nan" ELSE "log2")

----------------------------------------------------------------------------
(* C2 *)

\* the cells of one site with NaN replaced by 0, one row for each mutation
SiteCells(frame, s) ==
    {[mutation |-> r.mutation,
      v |-> IF IsNaN(r.mutdiffsel) THEN Zero ELSE r.mutdiffsel,
      a |-> IF IsNaN(r.mutdiffsel) THEN Zero ELSE FAbs(r.mutdiffsel)]
     : r \in {x \in frame : x.site = s}}

\* the five summaries of a site over its mutation values only
SiteSummary(frame, s) ==
    LET cells == SiteCells(frame, s)
    IN  [abs_diffsel |-> SumSkipNA(cells, "a"),
         positive_diffsel |-> SumSkipNA({x \in cells : FGe(x.v, Zero)}, "v"),
         negative_diffsel |-> SumSkipNA({x \in cells : FLe(x.v, Zero)}, "v"),
         max_diffsel |-> (CHOOSE x \in cells : \A y \in cells : FGe(x.v, y.v)).v,
         min_diffsel |-> (CHOOSE x \in cells : \A y \in cells : FLe(x.v, y.v)).v]

\* what the doctest expects for its table (lines 162-170)
DocExpected ==
    (1 :> [abs_diffsel |-> <<18, 5>>, positive_diffsel |-> <<16, 5>>,
           negative_diffsel |-> <<-2, 5>>, max_diffsel |-> <<16, 5>>,
           min_diffsel |-> <<-1, 5>>])
    @@ (2 :> [abs_diffsel |-> <<21, 5>>, positive_diffsel |-> <<21, 5>>,
              negative_diffsel |-> Zero, max_diffsel |-> <<41, 10>>,
              min_diffsel |-> Zero])

\* C2: mutToSiteDiffSel returns for each site the five summaries of that
\* site's mutation values alone, NaN counted as 0, and the doctest's values
\* for the doctest's table
C2_SummariesOverMutationsOnly ==
    pc = "sitereturned" =>
        /\ DOMAIN sitediffsel = {r.site : r \in mutdiffsel}
        /\ \A s \in DOMAIN sitediffsel :
              sitediffsel[s] = SiteSummary(mutdiffsel, s)
        /\ mutdiffsel = DocTable => sitediffsel = DocExpected

----------------------------------------------------------------------------
(* C3 *)

\* -log2(x) is log2(1/x); -NaN is NaN
Negated(l) ==
    IF l.kind = "log2" THEN Log2(FDiv(One, l.of))
    ELSE IF l.kind = "inf" THEN Log2(Zero)
    ELSE IF l.kind = "-inf" THEN Log2(Inf)
    ELSE l

\* C3: the call with sel and mock swapped returns the same rows, masks the
\* same rows, and returns the negated mutdiffsel on every row it does not mask
C3_SwapNegates ==
    pc = "returned" =>
        LET swapped == FinalFrame(mock, sel, err, pseudocount, translate_to_aa,
                                  mincount)
        IN  /\ Keys(swapped) = Keys(m)
            /\ \A r \in m :
                  LET q == At(swapped, r.site, r.mutation)
                  IN  /\ Unmasked(q, mincount) <=> Unmasked(r, mincount)
                      /\ Unmasked(r, mincount) =>
                            q.mutdiffsel = Negated(r.mutdiffsel)

\* a call returned a row with a finite enrichment other than 1 and a row of
\* another mutation that mincount masks
C3_Witness ==
    /\ pc = "returned"
    /\ \E r \in m : /\ Unmasked(r, mincount)
                    /\ r.mutdiffsel.kind = "log2"
                    /\ r.enrichment # One
    /\ \E r \in m : r.mutation # r.wildtype /\ ~Unmasked(r, mincount)

----------------------------------------------------------------------------
(* C4 *)

\* max(x, 1/x): the distance of a ratio from 1
Mag(x) == Maximum(x, FDiv(One, x))

LargerPseudocounts == {q \in 1..MaxPseudo : q > pseudocount}

\* the wildtype row of the site of r
WtRow(frame, r) == CHOOSE w \in frame : w.site = r.site /\ w.mutation = w.wildtype

\* the counts of r are at least the wildtype's in one sample and at most the
\* wildtype's in the other
OppositeSides(frame, r) ==
    LET w == WtRow(frame, r)
    IN  \/ FGe(r.nsel, w.nsel) /\ FLe(r.nmock, w.nmock)
        \/ FLe(r.nsel, w.nsel) /\ FGe(r.nmock, w.nmock)

\* C4 as stated: with the counts fixed, a larger pseudocount never gives an
\* unmasked row a larger |mutdiffsel|
C4_MagnitudeShrinks ==
    pc = "returned" =>
        \A q \in LargerPseudocounts :
            LET larger == DiffSel(m, q, mincount)
            IN  \A r \in m :
            LET r2 == At(larger, r.site, r.mutation)
            IN  (Unmasked(r, mincount) /\ IsFinite(r.enrichment)
                    /\ IsFinite(r2.enrichment))
                => FLe(Mag(r2.enrichment), Mag(r.enrichment))

\* C4 amended: with the counts fixed, a larger pseudocount never moves the
\* ratio nselP/nselPwt or the ratio nmockP/nmockPwt of a row away from 1, and
\* never gives an unmasked row a larger |mutdiffsel| when its counts are at
\* least the wildtype's in one sample and at most the wildtype's in the other
C4_RatiosShrink ==
    pc = "returned" =>
        \A q \in LargerPseudocounts :
            LET larger == DiffSel(m, q, mincount)
            IN  \A r \in m :
            LET r2 == At(larger, r.site, r.mutation)
            IN  /\ ~FLt(Mag(FDiv(r.nselP, r.nselPwt)),
                        Mag(FDiv(r2.nselP, r2.nselPwt)))
                /\ ~FLt(Mag(FDiv(r.nmockP, r.nmockPwt)),
                        Mag(FDiv(r2.nmockP, r2.nmockPwt)))
                /\ (Unmasked(r, mincount) /\ OppositeSides(m, r))
                   => ~FLt(Mag(r.enrichment), Mag(r2.enrichment))

\* a call returned a row, with counts on opposite sides of the wildtype's,
\* whose |mutdiffsel| a larger pseudocount makes strictly smaller
C4_Witness ==
    /\ pc = "returned"
    /\ \E q \in LargerPseudocounts : \E r \in m :
          /\ Unmasked(r, mincount) /\ OppositeSides(m, r)
          /\ FLt(Mag(At(DiffSel(m, q, mincount), r.site, r.mutation).enrichment),
                 Mag(r.enrichment))

----------------------------------------------------------------------------
(* C5 *)

\* the sum of a column over the rows of a site, as pandas sums a column
SiteTotal(frame, s, col) == SumSkipNA({y \in frame : y.site = s}, col)

\* m is the frame after the translation
IsTranslated == translate_to_aa /\ pc \in {"diffsel", "returned"} /\ raised = ""

\* C5: at every stage, the N of each row is the sum of n over the rows of its
\* site, for sel and for mock; the melted N is the total of the raw counts of
\* the site; and the translation keeps the total of n of each site
C5_TotalsFollowCounts ==
    /\ \A r \in m :
          /\ r.Nsel = SiteTotal(m, r.site, "nsel")
          /\ r.Nmock = SiteTotal(m, r.site, "nmock")
    /\ (m # {} /\ err = None /\ ~IsTranslated) =>
          \A r \in m : /\ r.Nsel = Float(RawTotal(sel, r.site))
                       /\ r.Nmock = Float(RawTotal(mock, r.site))
    /\ IsTranslated =>
          LET codons == CountFrame(sel, mock, err, FALSE)
          IN  \A s \in {r.site : r \in codons} :
                 /\ SiteTotal(m, s, "nsel") = SiteTotal(codons, s, "nsel")
                 /\ SiteTotal(m, s, "nmock") = SiteTotal(codons, s, "nmock")

\* the error-corrected counts of two synonymous codons, both positive, have
\* been translated into one amino-acid row
C5_Witness ==
    /\ IsTranslated
    /\ err # None
    /\ \E r \in CountFrame(sel, mock, err, FALSE) :
          \E q \in CountFrame(sel, mock, err, FALSE) :
             /\ r.mutation = "AAA" /\ q.mutation = "AAG" /\ r.site = q.site
             /\ FLt(Zero, r.nsel) /\ FLt(Zero, q.nsel)
             /\ r.nsel # q.nsel

----------------------------------------------------------------------------
(* C6 *)

ErrWildtypeZero == err # None /\ ~ErrWildtypePositive

\* C6: a call whose err table has a count of 0 at a wildtype never gets past
\* the error correction, and no wildtype row is corrected with epsilon 0
C6_ZeroControlIsFatal ==
    /\ ErrWildtypeZero => pc \in {"check", "melt", "errcorr", "raised"}
    /\ HasEpsilon => \A r \in m : wtmask(r) => r.epsilon # Zero

----------------------------------------------------------------------------
(* C7 *)

SiteSeq(df) == [i \in 1..Len(df) |-> SortValues(df)[i].site]
WildtypeSeq(df) == [i \in 1..Len(df) |-> SortValues(df)[i].wildtype]

\* the tables disagree on their sites or wildtypes once sorted by site
KeysDiffer ==
    \/ SiteSeq(sel) # SiteSeq(mock)
    \/ WildtypeSeq(sel) # WildtypeSeq(mock)
    \/ err # None /\ (SiteSeq(err) # SiteSeq(sel)
                        \/ WildtypeSeq(err) # WildtypeSeq(sel))

\* the call was ended by the comparison of the sites and wildtypes
AlignmentRejected ==
    /\ pc = "raised"
    /\ raised \in {"ValueError: Can only compare identically-labeled Series objects",
                   "AssertionError: Inconsistent sites",
                   "AssertionError: Inconsistent wildtype"}

\* C7: a call with valid parameters and valid columns is rejected by the
\* alignment checks, before the melt, exactly when the sorted tables disagree
\* on their sites or wildtypes
C7_RejectedIffKeysDiffer ==
    (/\ pc # "check"
     /\ pseudocount > 0 /\ mincount >= 0
     /\ Columns(sel) = expectedcols /\ Columns(mock) = expectedcols
     /\ err # None => Columns(err) = expectedcols)
    => /\ AlignmentRejected <=> KeysDiffer
       /\ AlignmentRejected => m = {}

----------------------------------------------------------------------------
(* C8 *)

\* C8: a call with pseudocount <= 0 or mincount < 0 returns no table
C8_BadParameterIsFatal ==
    (pseudocount <= 0 \/ mincount < 0) => pc # "returned"

----------------------------------------------------------------------------
(* C9 *)

\* C9: with an err table whose wildtype counts are positive, the corrected
\* count of each sample is max(0, N*(n/N - epsilon)) of the raw n and N off
\* the wildtype and n/epsilon at the wildtype, and is a real number >= 0
C9_CorrectedCountsAreReal ==
    (HasEpsilon /\ ErrWildtypePositive) =>
        \A r \in m :
            LET Expected(df) ==
                    LET n == Float(RawRow(df, r.site).counts[r.mutation])
                        N == Float(RawTotal(df, r.site))
                    IN  IF r.mutation = r.wildtype THEN FDiv(n, r.epsilon)
                        ELSE Maximum(Zero, FMul(N, FSub(FDiv(n, N), r.epsilon)))
            IN  /\ r.nsel = Expected(sel)
                /\ r.nmock = Expected(mock)
                /\ IsFinite(r.nsel) /\ FGe(r.nsel, Zero)
                /\ IsFinite(r.nmock) /\ FGe(r.nmock, Zero)

----------------------------------------------------------------------------
(* C10 *)

\* C10 as stated: the rows of a site are corrected with one epsilon
C10_OneEpsilonPerSite ==
    HasEpsilon => \A r \in m : \A q \in m : r.site = q.site => r.epsilon = q.epsilon

\* C10 amended: epsilon is one value for each site and mutation, the err count
\* of the mutation at the site over the err total of the site, and sel and
\* mock are both corrected with it
C10_EpsilonPerMutation ==
    HasEpsilon =>
        \A r \in m :
            LET eps == FDiv(Float(RawRow(err, r.site).counts[r.mutation]),
                            Float(RawTotal(err, r.site)))
                Expected(df) ==
                    LET n == Float(RawRow(df, r.site).counts[r.mutation])
                        N == Float(RawTotal(df, r.site))
                    IN  IF r.mutation = r.wildtype THEN FDiv(n, eps)
                        ELSE Maximum(Zero, FMul(N, FSub(FDiv(n, N), eps)))
            IN  /\ r.epsilon = eps
                /\ r.nsel = Expected(sel)
                /\ r.nmock = Expected(mock)

\* the error correction ran with different epsilons on two rows of a site
C10_Witness ==
    /\ HasEpsilon
    /\ \E r \in m : \E q \in m :
          /\ r.site = q.site
          /\ IsFinite(r.epsilon) /\ IsFinite(q.epsilon)
          /\ r.epsilon # q.epsilon

====
